---------------------------- MODULE Spec2Model ----------------------------
(***************************************************************************)
(* A model of bench.cpp: the matmul benchmark driver (main, bench_all,     *)
(* benchmark), the hardware matmul context (make_matmul, set_matrix_data,  *)
(* free_matmul), the statistics (calculateAverage, calculateStdDev) and    *)
(* the two software backends (matmul_naive, matmul_cblas).                 *)
(*                                                                         *)
(* Four specifications share the module's variables:                       *)
(*   Spec        the driver: main -> bench_all -> benchmark -> backends    *)
(*   SpecStats   the reduction of a sample list to (min, mean, stddev)     *)
(*   SpecMatmul  matmul_naive and matmul_cblas on small matrices           *)
(*   SpecUpload  set_matrix_data on one device region                      *)
(* Each specification holds the other specifications' variables fixed.     *)
(*                                                                         *)
(* Numbers: float and double values are modelled by exact rationals        *)
(* <<numerator, denominator>> (statistics) or by integers (matrix          *)
(* entries), so binary rounding is not modelled.  The 16-bit conversion    *)
(* of set_matrix_data is modelled on integers (ToFloat16).                 *)
(***************************************************************************)
EXTENDS Integers, Sequences, FiniteSets

VARIABLES
    \* ---- the driver (Spec) ----
    pc,        \* control position of the single thread
    sizeIdx,   \* main: position of the range-for over sizes (1-based)
    repeat,    \* main: size_t repeat, passed to bench_all
    out,       \* standard output, a sequence of lines
    shape,     \* bench_all: its arguments <<M, K, N>>
    ret,       \* bench_all: std::vector<std::tuple<float,double,double>> ret
    func,      \* benchmark: the backend passed as func
    rep,       \* benchmark: its argument repeat
    A,         \* benchmark: auto A = make_random_matrix(M, K)
    B,         \* benchmark: auto B = make_random_matrix(K, N)
    times,     \* benchmark: std::vector<float> times
    i,         \* benchmark: the loop counter
    start,     \* benchmark: the loop body's start timestamp (ms)
    end,       \* benchmark: the loop body's end timestamp (ms)
    now,       \* the system clock (ms), read by system_clock::now()
    gen,       \* number of matrices drawn from the random source so far
    first,     \* the lambda's  static bool first
    ctxs,      \* every RKNNMatMulCtx made so far (the device's resources)
    ctx,       \* the context captured by the current rknn lambda (0: none)
    calls,     \* history: calls[s][f] = invocations of backend f at size s
    negot,     \* history: the status of every rknn_matmul_create call
    results,   \* history: results[s][f] = what benchmark returned for f at s
    \* ---- the statistics (SpecStats) ----
    sVec,      \* the sample list
    sRes,      \* the reduced triple, or NoResult
    \* ---- the software backends (SpecMatmul) ----
    mIn,       \* the inputs [M, K, N, A, B]
    mNaive,    \* matmul_naive's result, or <<>> before the call
    mCblas,    \* matmul_cblas's call: [called, legal, oob, C]
    \* ---- the upload (SpecUpload) ----
    uHost,     \* the host matrix (const float* data), a sequence
    uMem,      \* the device region [size (bytes), virt (contents), binds]
    uI,        \* set_matrix_data's loop counter
    uReads,    \* history: the source indices read so far
    uPc        \* "copy" | "done" | "fault"

dvars == <<pc, sizeIdx, repeat, out, shape, ret, func, rep, A, B, times, i,
           start, end, now, gen, first, ctxs, ctx, calls, negot,
           results>>
svars == <<sVec, sRes>>
mvars == <<mIn, mNaive, mCblas>>
uvars == <<uHost, uMem, uI, uReads, uPc>>
vars == <<dvars, svars, mvars, uvars>>

None == "none"
\* A double that is not a number (0.0 / 0, sqrt of a negative).
NaN == <<0, 0>>
\* No triple yet.
NoResult == <<>>
\* No matrix yet.
NoMatrix == [id |-> 0, rows |-> 0, cols |-> 0]

-----------------------------------------------------------------------------
\* Bounds of the model.

\* bench_all is explored for repeat in 1..MaxRepeat and for main's own value.
MaxRepeat == 2
\* The system clock advances by at most this many milliseconds in one run.
MaxClock == 1
\* SpecStats: samples are millisecond counts in 0..MaxCount.
MaxCount == 2
\* SpecStats: the sample list has at most this many elements.
MaxSamples == 4
\* SpecMatmul, SpecUpload: matrix dimensions range over 1..MaxDim.
MaxDim == 2
\* SpecMatmul: the two inputs hold at most this many elements together.
MaxCells == 8
\* SpecUpload: the plan may pad a region by up to this many elements.
MaxPad == 1

-----------------------------------------------------------------------------
\* Exact rational arithmetic standing for float/double arithmetic.

RECURSIVE GCD(_, _)
GCD(a, b) == IF b = 0 THEN a ELSE GCD(b, a % b)

Abs(x) == IF x < 0 THEN 0 - x ELSE x

\* n/d in lowest terms with a positive denominator (d # 0).
Rat(n, d) ==
    LET g == GCD(Abs(n), Abs(d))
        s == IF d < 0 THEN 0 - 1 ELSE 1
    IN  <<(s * n) \div g, (s * d) \div g>>

\* Sums over the least common denominator, products after cross-cancelling:
\* the intermediate integers stay small.
RatAdd(p, q) ==
    IF p[2] = q[2] THEN Rat(p[1] + q[1], p[2])
    ELSE LET g == GCD(p[2], q[2])
         IN  Rat(p[1] * (q[2] \div g) + q[1] * (p[2] \div g),
                 (p[2] \div g) * q[2])
RatNeg(p) == <<0 - p[1], p[2]>>
RatSub(p, q) == RatAdd(p, RatNeg(q))
RatMul(p, q) ==
    LET g1 == GCD(Abs(p[1]), q[2])
        g2 == GCD(Abs(q[1]), p[2])
    IN  Rat((p[1] \div g1) * (q[1] \div g2), (p[2] \div g2) * (q[2] \div g1))
RatDivInt(p, n) ==
    LET g == GCD(Abs(p[1]), n)
    IN  Rat(p[1] \div g, p[2] * (n \div g))
RatLt(p, q) == p[1] * q[2] < q[1] * p[2]
RatLeq(p, q) == p[1] * q[2] <= q[1] * p[2]
Zero == Rat(0, 1)

\* std::sqrt on a double: NaN for a negative argument, else the
\* non-negative root, kept symbolically as [sqrt |-> argument].
Sqrt(q) == IF q = NaN \/ RatLt(q, Zero) THEN [sqrt |-> NaN] ELSE [sqrt |-> q]
SqrtIsZero(s) == s.sqrt = Zero
SqrtGeqZero(s) == s.sqrt # NaN

\* duration_cast<milliseconds>(end - start).count() / 1000.0f
MillisPerSecond == 1000
Sample(count) == Rat(count, MillisPerSecond)

-----------------------------------------------------------------------------
\* Statistics.

RECURSIVE SumTo(_, _)
\* sum after the first k rounds of  for (float value : vec) sum += value;
SumTo(vec, k) ==
    IF k = 0 THEN Zero ELSE RatAdd(SumTo(vec, k - 1), vec[k])

calculateAverage(vec) ==
    IF Len(vec) = 0 THEN NaN ELSE RatDivInt(SumTo(vec, Len(vec)), Len(vec))

\* Faulty variant: the deviation is not squared.
SquaredDeviation_NoSquare(value, mean) == RatSub(value, mean)

\* One term of calculateStdDev's sum: (value - mean) * (value - mean).
SquaredDeviation(value, mean) ==
    RatMul(RatSub(value, mean), RatSub(value, mean))

RECURSIVE SumSqTo(_, _, _)
\* sum after the first k rounds of calculateStdDev's loop.
SumSqTo(vec, mean, k) ==
    IF k = 0 THEN Zero
    ELSE RatAdd(SumSqTo(vec, mean, k - 1), SquaredDeviation(vec[k], mean))

calculateStdDev(vec) ==
    LET mean == calculateAverage(vec)
    IN  IF mean = NaN THEN Sqrt(NaN)
        ELSE Sqrt(RatDivInt(SumSqTo(vec, mean, Len(vec)), Len(vec)))

RECURSIVE MinTo(_, _)
\* std::min_element over the first k elements: the first smallest one
\* (a later element replaces the best only if it is < the best).
MinTo(vec, k) ==
    IF k = 1 THEN vec[1]
    ELSE LET best == MinTo(vec, k - 1)
         IN  IF RatLt(vec[k], best) THEN vec[k] ELSE best

min_element(vec) == MinTo(vec, Len(vec))

\* benchmark's return statement: make_tuple(min, average, stddev).
Reduce(vec) == <<min_element(vec), calculateAverage(vec), calculateStdDev(vec)>>

-----------------------------------------------------------------------------
\* The values a specification gives to the variables it does not use.

DriverIdle ==
    /\ pc = "idle" /\ sizeIdx = 0 /\ repeat = 0 /\ out = <<>>
    /\ shape = <<0, 0, 0>> /\ ret = <<>> /\ func = None /\ rep = 0
    /\ A = NoMatrix /\ B = NoMatrix /\ times = <<>> /\ i = 0 /\ start = 0 /\ end = 0
    /\ now = 0 /\ gen = 0 /\ first = TRUE /\ ctxs = <<>> /\ ctx = 0
    /\ calls = <<>> /\ negot = <<>> /\ results = <<>>
StatsIdle == sVec = <<>> /\ sRes = NoResult
NoInput == [M |-> 0, K |-> 0, N |-> 0, A |-> <<>>, B |-> <<>>]
NotCalled == [called |-> FALSE, legal |-> FALSE, oob |-> FALSE, C |-> <<>>]
MatmulIdle == mIn = NoInput /\ mNaive = <<>> /\ mCblas = NotCalled
NoMem == [size |-> 0, virt |-> <<>>, binds |-> 0]
UploadIdle ==
    uHost = <<>> /\ uMem = NoMem /\ uI = 0 /\ uReads = {} /\ uPc = "idle"

-----------------------------------------------------------------------------
\* SpecStats: benchmark's sample list and its reduction.

SampleCounts == 0..MaxCount

InitStats == DriverIdle /\ MatmulIdle /\ UploadIdle /\ StatsIdle

\* times.push_back(count / 1000.0f)
stats_push ==
    /\ sRes = NoResult
    /\ Len(sVec) < MaxSamples
    /\ \E c \in SampleCounts : sVec' = Append(sVec, Sample(c))
    /\ UNCHANGED <<sRes, dvars, mvars, uvars>>

\* return make_tuple(*min_element(...), calculateAverage(times),
\*                   calculateStdDev(times));   (repeat >= 1)
stats_reduce ==
    /\ sRes = NoResult
    /\ Len(sVec) >= 1
    /\ sRes' = Reduce(sVec)
    /\ UNCHANGED <<sVec, dvars, mvars, uvars>>

NextStats == stats_push \/ stats_reduce

SpecStats == InitStats /\ [][NextStats]_vars

AllEqual(vec) == \A a, b \in 1..Len(vec) : vec[a] = vec[b]

\* C8: for every non-empty sample list, the reported min is <= the reported
\* mean, the reported standard deviation is >= 0, and the standard deviation
\* is 0 exactly when all samples are equal.
C8_MinMeanStdDev ==
    sRes # NoResult =>
        /\ Len(sVec) >= 1
        /\ sRes[2] # NaN
        /\ RatLeq(sRes[1], sRes[2])
        /\ SqrtGeqZero(sRes[3])
        /\ (SqrtIsZero(sRes[3]) <=> AllEqual(sVec))

\* C8's case: a reduced list with unequal samples (stddev > 0, min < mean).
C8_Witness ==
    /\ sRes # NoResult
    /\ Len(sVec) >= 3
    /\ ~AllEqual(sVec)
    /\ RatLt(sRes[1], sRes[2])
    /\ ~SqrtIsZero(sRes[3])

-----------------------------------------------------------------------------
\* Spec: the driver.

\* main: std::vector<size_t> sizes = {256, 512, 1024, 2048};
sizes == <<256, 512, 1024, 2048>>
\* main: size_t repeat = 20;
MainRepeat == 20
\* bench_all: benchmark(M, K, N, 3, matmul_naive)
NaiveRepeat == 3

Backends == {"naive", "cblas", "rknn"}
\* The repeat counts bench_all is explored for.
Repeats == (1..MaxRepeat) \cup {MainRepeat}
\* rknn_matmul_create's status: negative on failure.
CreateStatuses == {0 - 1, 0}

Line(kind, size, cells) == [kind |-> kind, size |-> size, cells |-> cells]
HeaderRow == Line("header", 0, <<>>)
SeparatorRow == Line("separator", 0, <<>>)
\* printf("rknn_matmul_create fail! ret=%d\n", ret)
FailLine(status) == Line("rknn_matmul_create fail", 0, <<status>>)

\* main's lambda: the triple printed with setprecision(2); the text is kept
\* symbolically as the triple it was printed from.
tupleToString(t) == [precision |-> 2, of |-> t]

\* Faulty variant: the naive and library cells change places.
Row_Swapped(size, r) ==
    Line("row", size,
         <<tupleToString(r[2]), tupleToString(r[1]), tupleToString(r[3])>>)

\* main: the row printed from bench_all's result (ret[0], ret[1], ret[2]).
Row(size, r) ==
    Line("row", size,
         <<tupleToString(r[1]), tupleToString(r[2]), tupleToString(r[3])>>)

\* make_random_matrix<float>(rows, cols): a fresh matrix; id counts the
\* draws from the random source.
make_random_matrix(id, rows, cols) == [id |-> id, rows |-> rows, cols |-> cols]

\* Contents of a device region.
Uninit == [kind |-> "uninit", of |-> <<>>]
\* ptr[i] = (float16)data[i] for the whole matrix.
Float16Of(m) == [kind |-> "float16", of |-> <<m>>]
\* What rknn_matmul_run leaves in the output region.
ProductOf(a, b) == [kind |-> "product", of |-> <<a, b>>]

\* rknn_create_mem + rknn_matmul_set_io_mem: an allocated, bound region whose
\* contents are whatever the allocation holds.
NewRegion == [alloc |-> TRUE, bound |-> TRUE, data |-> Uninit]

\* make_matmul after a successful rknn_matmul_create.
NewCtx(M, K, N) ==
    [handle |-> "live", M |-> M, K |-> K, N |-> N,
     A |-> NewRegion, B |-> NewRegion, C |-> NewRegion, uploads |-> 0]

\* set_matrix_data(&ctx->ctx, mem, attr, data): convert, copy, rebind.
set_matrix_data(mem, data) ==
    [mem EXCEPT !.data = Float16Of(data), !.bound = TRUE]

\* free_matmul(ctx): the three regions are destroyed, then the handle.
\* Nothing in bench.cpp calls it.
free_matmul(c) ==
    [c EXCEPT !.A.alloc = FALSE, !.B.alloc = FALSE, !.C.alloc = FALSE,
              !.handle = "destroyed"]

LiveCtxs == {c \in 1..Len(ctxs) : ctxs[c].handle = "live"}

\* system_clock::now(): the clock never runs backwards in the model and
\* advances by at most MaxClock in a run.
ClockReads == now..MaxClock

Init ==
    /\ pc = "main"
    /\ sizeIdx = 1
    /\ repeat \in Repeats
    /\ out = <<>>
    /\ shape = <<0, 0, 0>>
    /\ ret = <<>>
    /\ func = None
    /\ rep = 0
    /\ A = NoMatrix
    /\ B = NoMatrix
    /\ times = <<>>
    /\ i = 0
    /\ start = 0
    /\ end = 0
    /\ now = 0
    /\ gen = 0
    /\ first = TRUE
    /\ ctxs = <<>>
    /\ ctx = 0
    /\ calls = [s \in 1..Len(sizes) |-> [f \in Backends |-> 0]]
    /\ negot = <<>>
    /\ results = [s \in 1..Len(sizes) |-> [f \in Backends |-> NoResult]]
    /\ StatsIdle /\ MatmulIdle /\ UploadIdle

Others == <<svars, mvars, uvars>>

\* main: the header row.
main_header ==
    /\ pc = "main"
    /\ out' = Append(out, HeaderRow)
    /\ pc' = "main_sep"
    /\ UNCHANGED <<sizeIdx, repeat, shape, ret, func, rep, A, B, times, i,
                   start, end, now, gen, first, ctxs, ctx, calls, negot,
                   results, Others>>

\* main: the separator row.
main_separator ==
    /\ pc = "main_sep"
    /\ out' = Append(out, SeparatorRow)
    /\ pc' = "main_loop"
    /\ UNCHANGED <<sizeIdx, repeat, shape, ret, func, rep, A, B, times, i,
                   start, end, now, gen, first, ctxs, ctx, calls, negot,
                   results, Others>>

\* main: for (auto size : sizes) bench_all(size, size, size, repeat)
main_call_bench_all ==
    /\ pc = "main_loop"
    /\ sizeIdx <= Len(sizes)
    /\ shape' = <<sizes[sizeIdx], sizes[sizeIdx], sizes[sizeIdx]>>
    /\ ret' = <<>>
    /\ pc' = "call_naive"
    /\ UNCHANGED <<sizeIdx, repeat, out, func, rep, A, B, times, i,
                   start, end, now, gen, first, ctxs, ctx, calls, negot,
                   results, Others>>

\* main: return 0
main_return ==
    /\ pc = "main_loop"
    /\ sizeIdx > Len(sizes)
    /\ pc' = "done"
    /\ UNCHANGED <<sizeIdx, repeat, out, shape, ret, func, rep, A, B, times,
                   i, start, end, now, gen, first, ctxs, ctx, calls, negot,
                   results, Others>>

\* benchmark's entry: the two random inputs, the unused outer start
\* timestamp, the empty sample list.
BenchmarkBegin(f, r) ==
    /\ func' = f
    /\ rep' = r
    /\ A' = make_random_matrix(gen + 1, shape[1], shape[2])
    /\ B' = make_random_matrix(gen + 2, shape[2], shape[3])
    /\ gen' = gen + 2
    /\ now' \in ClockReads
    /\ times' = <<>>
    /\ i' = 0
    /\ pc' = "loop"
    /\ UNCHANGED <<sizeIdx, repeat, out, shape, ret, start, end, first, ctxs,
                   ctx, calls, negot, results, Others>>

\* Faulty variant: the naive backend gets the caller's repeat count.
bench_all_naive_CallerRepeat == pc = "call_naive" /\ BenchmarkBegin("naive", repeat)

\* bench_all: ret.push_back(benchmark(M, K, N, 3, matmul_naive))
bench_all_naive == pc = "call_naive" /\ BenchmarkBegin("naive", NaiveRepeat)

\* bench_all: ret.push_back(benchmark(M, K, N, repeat, matmul_cblas))
bench_all_cblas == pc = "call_cblas" /\ BenchmarkBegin("cblas", repeat)

\* bench_all: ret.push_back(benchmark(M, K, N, repeat, rknn))
bench_all_rknn == pc = "call_rknn" /\ BenchmarkBegin("rknn", repeat)

\* Faulty variant: i <= repeat.
LoopCondition_OffByOne == i <= rep

\* benchmark: the loop condition  i < repeat
LoopCondition == i < rep

\* benchmark: auto start = system_clock::now()  inside the loop
benchmark_start_timer ==
    /\ pc = "loop"
    /\ LoopCondition
    /\ \E t \in ClockReads : start' = t /\ now' = t
    /\ pc' = "invoke"
    /\ UNCHANGED <<sizeIdx, repeat, out, shape, ret, func, rep, A, B, times,
                   i, end, gen, first, ctxs, ctx, calls, negot, results,
                   Others>>

Called(f) == [calls EXCEPT ![sizeIdx][f] = @ + 1]

\* benchmark: auto C = func(A, B, M, K, N)  with func = matmul_naive; the
\* product is discarded.
invoke_naive ==
    /\ pc = "invoke"
    /\ func = "naive"
    /\ calls' = Called("naive")
    /\ pc' = "stop_timer"
    /\ UNCHANGED <<sizeIdx, repeat, out, shape, ret, func, rep, A, B, times,
                   i, start, end, now, gen, first, ctxs, ctx, negot, results,
                   Others>>

\* benchmark: auto C = func(A, B, M, K, N)  with func = matmul_cblas
invoke_cblas ==
    /\ pc = "invoke"
    /\ func = "cblas"
    /\ calls' = Called("cblas")
    /\ pc' = "stop_timer"
    /\ UNCHANGED <<sizeIdx, repeat, out, shape, ret, func, rep, A, B, times,
                   i, start, end, now, gen, first, ctxs, ctx, negot, results,
                   Others>>

\* The lambda's  if (first) { ... } : both uploads into the captured context.
Uploaded(c) ==
    [c EXCEPT !.A = set_matrix_data(c.A, A),
              !.B = set_matrix_data(c.B, B),
              !.uploads = @ + 1]

\* rknn_matmul_run(ctx->ctx): the device computes on what the bound input
\* regions hold.
rknn_matmul_run(c) == [c EXCEPT !.C.data = ProductOf(c.A.data, c.B.data)]

\* benchmark: auto C = func(A, B, M, K, N)  with func = the rknn lambda.
\* first is a static local of the lambda's call operator: one flag for the
\* whole process, shared by the lambdas of all sizes.
\* When the plan reported a region larger than the operand, the upload
\* reads the host matrix past its end (see SpecUpload): the region still
\* receives the converted operand, or the process faults in the upload.
invoke_rknn ==
    /\ pc = "invoke"
    /\ func = "rknn"
    /\ \/ /\ first
          /\ first' = FALSE
          /\ ctxs' = [ctxs EXCEPT ![ctx] = rknn_matmul_run(Uploaded(ctxs[ctx]))]
          /\ calls' = Called("rknn")
          /\ pc' = "stop_timer"
       \/ /\ first
          /\ first' = FALSE
          /\ pc' = "fault"
          /\ UNCHANGED <<ctxs, calls>>
       \/ /\ ~first
          /\ first' = first
          /\ ctxs' = [ctxs EXCEPT ![ctx] = rknn_matmul_run(ctxs[ctx])]
          /\ calls' = Called("rknn")
          /\ pc' = "stop_timer"
    /\ UNCHANGED <<sizeIdx, repeat, out, shape, ret, func, rep, A, B, times,
                   i, start, end, now, gen, ctx, negot, results, Others>>

\* benchmark: auto end = system_clock::now(); times.push_back(...); ++i
benchmark_stop_timer ==
    /\ pc = "stop_timer"
    /\ \E t \in ClockReads :
          /\ end' = t
          /\ now' = t
          /\ times' = Append(times, Sample(t - start))
    /\ i' = i + 1
    /\ pc' = "loop"
    /\ UNCHANGED <<sizeIdx, repeat, out, shape, ret, func, rep, A, B, start,
                   gen, first, ctxs, ctx, calls, negot, results, Others>>

\* Where bench_all continues after benchmark(..., f) returns.
AfterBenchmark(f) ==
    CASE f = "naive" -> "call_cblas"
      [] f = "cblas" -> "rknn_setup"
      [] f = "rknn"  -> "bench_all_return"

\* benchmark: the loop ends, the samples are reduced and the triple is pushed
\* onto bench_all's ret.
benchmark_return ==
    /\ pc = "loop"
    /\ ~LoopCondition
    /\ ret' = Append(ret, Reduce(times))
    /\ results' = [results EXCEPT ![sizeIdx][func] =
                      [triple |-> Reduce(times), shape |-> shape,
                       samples |-> Len(times), inputs |-> <<A.id, B.id>>]]
    /\ pc' = AfterBenchmark(func)
    /\ UNCHANGED <<sizeIdx, repeat, out, shape, func, rep, A, B, times, i,
                   start, end, now, gen, first, ctxs, ctx, calls, negot,
                   Others>>

\* Faulty variant: the failure is printed but abort() is missing.
make_matmul_NoAbort(status) ==
    /\ negot' = Append(negot, status)
    /\ out' = IF status < 0 THEN Append(out, FailLine(status)) ELSE out
    /\ ctxs' = Append(ctxs, NewCtx(shape[1], shape[2], shape[3]))
    /\ ctx' = Len(ctxs) + 1
    /\ pc' = "call_rknn"

\* make_matmul(M, K, N) with rknn_matmul_create returning status.
make_matmul(status) ==
    /\ negot' = Append(negot, status)
    /\ IF status < 0
       THEN /\ out' = Append(out, FailLine(status))
            /\ pc' = "aborted"
            /\ UNCHANGED <<ctxs, ctx>>
       ELSE /\ ctxs' = Append(ctxs, NewCtx(shape[1], shape[2], shape[3]))
            /\ ctx' = Len(ctxs) + 1
            /\ pc' = "call_rknn"
            /\ UNCHANGED out

\* bench_all: auto rknn = rknn_setup()
rknn_setup ==
    /\ pc = "rknn_setup"
    /\ \E status \in CreateStatuses : make_matmul(status)
    /\ UNCHANGED <<sizeIdx, repeat, shape, ret, func, rep, A, B, times, i,
                   start, end, now, gen, first, calls, results, Others>>

\* bench_all returns ret (the lambda and its captured pointer go out of
\* scope; the context itself is not released) and main prints the row.
main_print_row ==
    /\ pc = "bench_all_return"
    /\ out' = Append(out, Row(sizes[sizeIdx], ret))
    /\ ctx' = 0
    /\ sizeIdx' = sizeIdx + 1
    /\ pc' = "main_loop"
    /\ UNCHANGED <<repeat, shape, ret, func, rep, A, B, times, i, start, end,
                   now, gen, first, ctxs, calls, negot, results, Others>>

Next ==
    \/ main_header
    \/ main_separator
    \/ main_call_bench_all
    \/ main_return
    \/ bench_all_naive
    \/ bench_all_cblas
    \/ bench_all_rknn
    \/ benchmark_start_timer
    \/ invoke_naive
    \/ invoke_cblas
    \/ invoke_rknn
    \/ benchmark_stop_timer
    \/ benchmark_return
    \/ rknn_setup
    \/ main_print_row

Spec == Init /\ [][Next]_vars

-----------------------------------------------------------------------------
\* Properties of the driver.

\* The context of the previous size is still live when a setup begins, or
\* a context is live at the normal exit.
NoLiveCtxAtSetupOrExit == pc \in {"rknn_setup", "done"} => LiveCtxs = {}

\* C1: the context made by setup for a size is torn down after that size's
\* last timed hardware invocation and before the next size's setup begins:
\* at most one context is live at any time, none is live when the next setup
\* begins or when main returns, and a torn-down context holds no region.
C1_ContextTornDownOnce ==
    /\ Cardinality(LiveCtxs) <= 1
    /\ NoLiveCtxAtSetupOrExit
    /\ \A c \in 1..Len(ctxs) :
          ctxs[c].handle = "destroyed" =>
              ~ctxs[c].A.alloc /\ ~ctxs[c].B.alloc /\ ~ctxs[c].C.alloc

\* C2: in every hardware lifecycle the inputs of that size's benchmark run
\* are uploaded (converted to 16-bit float) exactly once, before the first
\* device execution, so every device execution runs on input regions that
\* hold the current run's A and B.
C2_UploadEveryLifecycle ==
    (pc = "stop_timer" /\ func = "rknn") =>
        /\ ctxs[ctx].uploads = 1
        /\ ctxs[ctx].A.data = Float16Of(A)
        /\ ctxs[ctx].B.data = Float16Of(B)
        /\ ctxs[ctx].C.data = ProductOf(Float16Of(A), Float16Of(B))

\* benchmark has just returned to bench_all: func, rep and times still hold
\* the returned call's values.
JustReturned == pc \in {"call_cblas", "rknn_setup", "bench_all_return"}

\* C3: benchmark(M, K, N, R, backend) with R >= 1 invokes the backend exactly
\* R times, records one sample per invocation (the difference of the end and
\* start timestamps taken around it), and reduces a list of exactly R samples
\* to the returned triple.
C3_BenchmarkSamples ==
    /\ pc \in {"loop", "invoke", "stop_timer"} =>
          /\ rep >= 1
          /\ i <= rep
          /\ Len(times) = i
          /\ calls[sizeIdx][func] = (IF pc = "stop_timer" THEN i + 1 ELSE i)
          /\ (pc = "invoke" => i < rep)
          /\ (i > 0 /\ pc = "loop" =>
                 start <= end /\ times[i] = Sample(end - start))
    /\ JustReturned =>
          /\ rep >= 1
          /\ calls[sizeIdx][func] = rep
          /\ Len(times) = rep
          /\ Len(ret) >= 1
          /\ ret[Len(ret)] = Reduce(times)
          /\ results[sizeIdx][func].samples = rep

\* C3's case: a benchmark of main's repeat count has returned, one of its
\* samples being non-zero.
C3_Witness ==
    /\ pc = "bench_all_return"
    /\ rep = MainRepeat
    /\ Len(times) = MainRepeat
    /\ \E k \in 1..Len(times) : times[k] # Sample(0)

Failed(k) == negot[k] < 0
RowsOut == Cardinality({k \in 1..Len(out) : out[k].kind = "row"})

\* C4: a negative status of the plan negotiation aborts the process at once:
\* no region is allocated or bound for that size, no hardware invocation is
\* made for it, no row is emitted for it or any later size, the negotiation is
\* not retried, and main never returns; main returns only when negotiation
\* succeeded for every size.
C4_AbortOnCreateFailure ==
    /\ Len(negot) <= sizeIdx
    /\ \A k \in 1..Len(negot) :
          Failed(k) =>
              /\ k = Len(negot)
              /\ k = sizeIdx
              /\ pc = "aborted"
              /\ Len(ctxs) = k - 1
              /\ ctx = 0
              /\ calls[k]["rknn"] = 0
              /\ RowsOut = k - 1
              /\ \A s \in (k + 1)..Len(sizes) :
                    \A f \in Backends : calls[s][f] = 0
    /\ pc = "aborted" => Len(negot) >= 1 /\ Failed(Len(negot))
    /\ pc = "done" =>
          /\ Len(negot) = Len(sizes)
          /\ \A k \in 1..Len(negot) : ~Failed(k)

\* C4's case: the negotiation failed at the third size, after two rows.
C4_Witness ==
    /\ pc = "aborted"
    /\ sizeIdx = 3
    /\ Failed(3)
    /\ RowsOut = 2

ExpectedRow(s) ==
    Line("row", sizes[s],
         <<tupleToString(results[s]["naive"].triple),
           tupleToString(results[s]["cblas"].triple),
           tupleToString(results[s]["rknn"].triple)>>)

\* C5: on normal completion the output is the header row, the separator row
\* and one row per size in the order 256, 512, 1024, 2048; a row is emitted
\* only after the naive, then the library, then the hardware backend finished
\* their timed runs at shape (s,s,s), and carries their triples in that order.
C5_TableRows ==
    /\ pc = "done" =>
          out = <<HeaderRow, SeparatorRow>>
                    \o [s \in 1..Len(sizes) |-> ExpectedRow(s)]
    /\ \A k \in 1..Len(out) :
          out[k].kind = "row" =>
              /\ k >= 3
              /\ out[1] = HeaderRow
              /\ out[2] = SeparatorRow
              /\ \A f \in Backends :
                    /\ results[k - 2][f] # NoResult
                    /\ results[k - 2][f].shape =
                           <<sizes[k - 2], sizes[k - 2], sizes[k - 2]>>
              /\ results[k - 2]["naive"].inputs[2]
                     < results[k - 2]["cblas"].inputs[1]
              /\ results[k - 2]["cblas"].inputs[2]
                     < results[k - 2]["rknn"].inputs[1]
              /\ out[k] = ExpectedRow(k - 2)

\* C5's case: main returned after four rows, the first row's naive and
\* library cells differing.
C5_Witness ==
    /\ pc = "done"
    /\ Len(out) = 6
    /\ out[3].cells[1] # out[3].cells[2]

Completed(s) == s < sizeIdx \/ (s = sizeIdx /\ pc = "bench_all_return")

\* C9: at every size and for every repeat count R passed to bench_all, the
\* naive backend is invoked exactly 3 times and the library and hardware
\* backends exactly R times each; with main's R = 20: 3, 20 and 20.
C9_InvocationCounts ==
    \A s \in 1..Len(sizes) :
        /\ calls[s]["naive"] <= 3
        /\ calls[s]["cblas"] <= repeat
        /\ calls[s]["rknn"] <= repeat
        /\ Completed(s) =>
              /\ calls[s]["naive"] = 3
              /\ calls[s]["cblas"] = repeat
              /\ calls[s]["rknn"] = repeat
              /\ repeat = MainRepeat =>
                    calls[s] = [f \in Backends |->
                                   IF f = "naive" THEN 3 ELSE 20]

\* C9's case: main returned with its own repeat count.
C9_Witness ==
    /\ pc = "done"
    /\ repeat = MainRepeat
    /\ calls[Len(sizes)]["rknn"] = 20
    /\ calls[Len(sizes)]["naive"] = 3

-----------------------------------------------------------------------------
\* SpecMatmul: the two software backends on the same inputs.  Matrix entries
\* are integers (no rounding); a flat row-major matrix is a sequence, and the
\* C++ index x is position x + 1.

\* The values of a matrix entry.
Entries == {0, 1}

\* std::vector<float> C(n): n value-initialised elements.
Zeros(n) == [x \in 1..n |-> 0]

\* Faulty variant:  sum = term
Accumulate_Assign(sum, term) == term

\* matmul_naive:  sum += term
Accumulate(sum, term) == sum + term

RECURSIVE DotTo(_, _, _, _)
\* sum after the first k rounds of  sum += A[i * K + k] * B[k * N + j]
DotTo(in, ii, jj, k) ==
    IF k = 0 THEN 0
    ELSE Accumulate(DotTo(in, ii, jj, k - 1),
                    in.A[ii * in.K + (k - 1) + 1]
                        * in.B[(k - 1) * in.N + jj + 1])

RECURSIVE NaiveJ(_, _, _, _)
\* The loop over j from jj on, for row ii:  C[i * N + j] = sum
NaiveJ(C, in, ii, jj) ==
    IF ~(jj < in.N) THEN C
    ELSE NaiveJ([C EXCEPT ![ii * in.N + jj + 1] = DotTo(in, ii, jj, in.K)],
                in, ii, jj + 1)

RECURSIVE NaiveI(_, _, _)
\* The loop over i from ii on.
NaiveI(C, in, ii) ==
    IF ~(ii < in.M) THEN C ELSE NaiveI(NaiveJ(C, in, ii, 0), in, ii + 1)

matmul_naive(in) == NaiveI(Zeros(in.M * in.N), in, 0)

Max(a, b) == IF a >= b THEN a ELSE b

\* The element X[x] of an operand of the external routine; garbage stands
\* for whatever a read past the end of the vector returns.
ReadAt(X, x, garbage) == IF x < Len(X) THEN X[x + 1] ELSE garbage

\* Row-major element (r, c) of op(X): X[r * ld + c] without transposition,
\* X[c * ld + r] with it.
OpAt(X, trans, ld, r, c, garbage) ==
    IF trans = "NoTrans" THEN ReadAt(X, r * ld + c, garbage)
    ELSE ReadAt(X, c * ld + r, garbage)

RECURSIVE GemmDot(_, _, _, _)
GemmDot(call, r, c, k) ==
    IF k = 0 THEN 0
    ELSE GemmDot(call, r, c, k - 1)
             + OpAt(call.A, call.TransA, call.lda, r, k - 1, call.garbage)
                   * OpAt(call.B, call.TransB, call.ldb, k - 1, c, call.garbage)

\* The leading dimensions the row-major routine accepts: at least the row
\* length of each operand as stored (A is M x K, or K x M when transposed;
\* B is K x N, or N x K when transposed; C is M x N).
LegalLeadingDims(call) ==
    /\ call.lda >= Max(1, IF call.TransA = "NoTrans" THEN call.K ELSE call.M)
    /\ call.ldb >= Max(1, IF call.TransB = "NoTrans" THEN call.N ELSE call.K)
    /\ call.ldc >= Max(1, call.N)

\* Whether the call reads an operand past its end.
ReadsPastEnd(call) ==
    \E r \in 0..(call.M - 1), c \in 0..(call.N - 1), k \in 0..(call.K - 1) :
        \/ (IF call.TransA = "NoTrans" THEN r * call.lda + k
            ELSE k * call.lda + r) >= Len(call.A)
        \/ (IF call.TransB = "NoTrans" THEN k * call.ldb + c
            ELSE c * call.ldb + k) >= Len(call.B)

\* cblas_sgemm(CblasRowMajor, TransA, TransB, M, N, K, alpha, A, lda, B, ldb,
\* beta, C, ldc):  C := alpha * op(A) * op(B) + beta * C.  With an illegal
\* argument the routine reports it and returns, C untouched.
cblas_sgemm(call) ==
    IF ~LegalLeadingDims(call) THEN call.C
    ELSE [x \in 1..Len(call.C) |->
            LET r == (x - 1) \div call.ldc
                c == (x - 1) % call.ldc
            IN  IF r < call.M /\ c < call.N
                THEN call.alpha * GemmDot(call, r, c, call.K)
                         + call.beta * call.C[x]
                ELSE call.C[x]]

\* matmul_cblas's call: cblas_sgemm(CblasRowMajor, CblasNoTrans, CblasTrans,
\* M, N, K, 1.0f, A.data(), K, B.data(), N, 0.0f, C.data(), N)
SgemmCall(in, garbage) ==
    [TransA |-> "NoTrans", TransB |-> "Trans",
     M |-> in.M, N |-> in.N, K |-> in.K, alpha |-> 1,
     A |-> in.A, lda |-> in.K, B |-> in.B, ldb |-> in.N, beta |-> 0,
     C |-> Zeros(in.M * in.N), ldc |-> in.N, garbage |-> garbage]

matmul_cblas(in, garbage) == cblas_sgemm(SgemmCall(in, garbage))

Dims == 1..MaxDim

InitMatmul ==
    /\ \E M \in Dims, K \in Dims, N \in Dims :
          /\ M * K + K * N <= MaxCells
          /\ \E a \in [1..(M * K) -> Entries], b \in [1..(K * N) -> Entries] :
                mIn = [M |-> M, K |-> K, N |-> N, A |-> a, B |-> b]
    /\ mNaive = <<>>
    /\ mCblas = NotCalled
    /\ DriverIdle /\ StatsIdle /\ UploadIdle

\* auto C = matmul_naive(A, B, M, K, N)
call_matmul_naive ==
    /\ mNaive = <<>>
    /\ mNaive' = matmul_naive(mIn)
    /\ UNCHANGED <<mIn, mCblas, dvars, svars, uvars>>

\* auto C = matmul_cblas(A, B, M, K, N), after matmul_naive on the same
\* inputs.  A read past the end of an operand yields any entry value.
call_matmul_cblas ==
    /\ mNaive # <<>>
    /\ ~mCblas.called
    /\ \E g \in (IF ReadsPastEnd(SgemmCall(mIn, 0)) THEN Entries ELSE {0}) :
          mCblas' = [called |-> TRUE,
                     legal |-> LegalLeadingDims(SgemmCall(mIn, g)),
                     oob |-> ReadsPastEnd(SgemmCall(mIn, g)),
                     C |-> matmul_cblas(mIn, g)]
    /\ UNCHANGED <<mIn, mNaive, dvars, svars, uvars>>

NextMatmul == call_matmul_naive \/ call_matmul_cblas

SpecMatmul == InitMatmul /\ [][NextMatmul]_vars

IsIdentity(X, n) ==
    \A r \in 0..(n - 1), c \in 0..(n - 1) :
        X[r * n + c + 1] = (IF r = c THEN 1 ELSE 0)

\* The (r, c) entry of the product, as a sum over the set of k.
RECURSIVE SetSum(_, _, _, _)
SetSum(in, r, c, ks) ==
    IF ks = {} THEN 0
    ELSE LET k == CHOOSE x \in ks : \A y \in ks : x >= y
         IN  SetSum(in, r, c, ks \ {k})
                 + in.A[r * in.K + k + 1] * in.B[k * in.N + c + 1]

\* C6: for all M, K, N >= 1 matmul_naive returns exactly M*N elements, the
\* element at index i*N+j being the sum over k of A[i*K+k]*B[k*N+j]; for
\* M = K = N = 1 the output is A[0]*B[0]; when A is the identity (M = K) the
\* output equals B.
C6_NaiveProduct ==
    mNaive # <<>> =>
        /\ Len(mNaive) = mIn.M * mIn.N
        /\ DOMAIN mNaive = 1..(mIn.M * mIn.N)
        /\ \A r \in 0..(mIn.M - 1), c \in 0..(mIn.N - 1) :
              mNaive[r * mIn.N + c + 1] = SetSum(mIn, r, c, 0..(mIn.K - 1))
        /\ (mIn.M = 1 /\ mIn.K = 1 /\ mIn.N = 1) =>
              mNaive = <<mIn.A[1] * mIn.B[1]>>
        /\ (mIn.M = mIn.K /\ IsIdentity(mIn.A, mIn.K)) => mNaive = mIn.B

\* C6's case: the identity times a non-symmetric, non-square B.
C6_Witness ==
    /\ mNaive # <<>>
    /\ mIn.M = 2 /\ mIn.K = 2
    /\ IsIdentity(mIn.A, 2)
    /\ mNaive = mIn.B
    /\ \E x \in 1..Len(mIn.B) : mIn.B[x] = 1
    /\ \E x \in 1..Len(mIn.B) : mIn.B[x] = 0

\* C7: matmul_cblas passes leading dimensions that are legal for the operand
\* layouts its flags declare, reads no operand past its end, and returns the
\* M x N matrix matmul_naive returns for the same inputs.
C7_CblasEqualsNaive ==
    mCblas.called =>
        /\ mCblas.legal
        /\ ~mCblas.oob
        /\ Len(mCblas.C) = mIn.M * mIn.N
        /\ mCblas.C = mNaive

-----------------------------------------------------------------------------
\* SpecUpload: set_matrix_data(ctx, mem, attr, data) on one input region.

\* sizeof(float16)
SizeofFloat16 == 2
\* Integers up to 2048 are exact in the 16-bit format (11 significant bits).
Float16ExactMax == 2048

\* (float16)v for an integer 0 <= v < 4096: exact up to 2048, above that
\* rounded to the nearest even integer, ties to the even significand.
ToFloat16(v) ==
    IF v <= Float16ExactMax THEN v
    ELSE LET q == v \div 2
         IN  IF v % 2 = 0 THEN v
             ELSE IF q % 2 = 0 THEN 2 * q ELSE 2 * (q + 1)

\* The values of a host matrix element; 2049 is not exact in 16 bits.
HostValues == {1, 2049}
\* What a fresh region holds.
StaleValue == 0

\* The sizes (bytes) the negotiated plan may report for a rows x cols
\* operand: the operand itself, or more when the device pads it.
PlanSizes(rows, cols) ==
    {SizeofFloat16 * (rows * cols + pad) : pad \in 0..MaxPad}

InitUpload ==
    /\ \E rows \in Dims, cols \in Dims :
          /\ uHost \in [1..(rows * cols) -> HostValues]
          /\ \E bytes \in PlanSizes(rows, cols) :
                uMem = [size |-> bytes,
                        virt |-> [x \in 1..(bytes \div SizeofFloat16)
                                     |-> StaleValue],
                        binds |-> 1]
    /\ uI = 0
    /\ uReads = {}
    /\ uPc = "copy"
    /\ DriverIdle /\ StatsIdle /\ MatmulIdle

\* size_t size = mem->size / sizeof(float16)
CopyCount == uMem.size \div SizeofFloat16

\* ptr[i] = (float16)data[i]; ++i  with data[i] inside the host matrix.
set_matrix_data_copy ==
    /\ uPc = "copy"
    /\ uI < CopyCount
    /\ uI < Len(uHost)
    /\ uMem' = [uMem EXCEPT !.virt[uI + 1] = ToFloat16(uHost[uI + 1])]
    /\ uReads' = uReads \cup {uI}
    /\ uI' = uI + 1
    /\ UNCHANGED <<uHost, uPc, dvars, svars, mvars>>

\* ptr[i] = (float16)data[i]; ++i  with data[i] past the end of the host
\* matrix: the read yields any value, or the process faults.
set_matrix_data_copy_past_end ==
    /\ uPc = "copy"
    /\ uI < CopyCount
    /\ ~(uI < Len(uHost))
    /\ uReads' = uReads \cup {uI}
    /\ \/ /\ \E v \in HostValues :
                uMem' = [uMem EXCEPT !.virt[uI + 1] = ToFloat16(v)]
          /\ uI' = uI + 1
          /\ uPc' = uPc
       \/ /\ uPc' = "fault"
          /\ UNCHANGED <<uMem, uI>>
    /\ UNCHANGED <<uHost, dvars, svars, mvars>>

\* rknn_matmul_set_io_mem(*ctx, mem, attr) after the loop.
set_matrix_data_bind ==
    /\ uPc = "copy"
    /\ ~(uI < CopyCount)
    /\ uMem' = [uMem EXCEPT !.binds = @ + 1]
    /\ uPc' = "done"
    /\ UNCHANGED <<uHost, uI, uReads, dvars, svars, mvars>>

NextUpload ==
    \/ set_matrix_data_copy
    \/ set_matrix_data_copy_past_end
    \/ set_matrix_data_bind

SpecUpload == InitUpload /\ [][NextUpload]_vars

\* C10: every source index set_matrix_data reads is inside the host matrix,
\* whatever region size the plan reported (padded sizes included).
C10_ReadsWithinHost == \A x \in uReads : x < Len(uHost)

=============================================================================
